---- MODULE Spec2Model ----
(***************************************************************************)
(* GXplorer: the dual-pane file explorer of src/main.py and               *)
(* src/modules/file_explorer.py, as a state machine.                      *)
(*                                                                         *)
(* A path is the sequence of its components: <<>> is "/", <<"home">> is   *)
(* "/home".  A pane (FileExplorerPanel) has a current_path, the tree's    *)
(* current index (the focus cursor), the custom selection model that the  *)
(* space bar toggles (my_selection_model) and the tree view's own         *)
(* selection model (tree.selectionModel()), which the view never fills    *)
(* because the tree is in QTreeView.NoSelection mode.  Folders are shown  *)
(* collapsed: the rows of a pane are the children of its root index.      *)
(* denied is the set of paths on which the operating system refuses a     *)
(* copy, move or delete, so that the call raises.                         *)
(* The main window has its current_theme, the style sheet apply_theme set *)
(* (styleSheet) and the file resources/config.json (config_file); a       *)
(* PluginManager (plugin_manager) has its main_window, its plugins_folder *)
(* and its loaded_plugins.                                                *)
(***************************************************************************)
EXTENDS Integers, Sequences, FiniteSets, TLC

VARIABLES dirs, files, denied, current_path, currentIndex, my_selection_model,
          selectionModel, active_panel, toggled, lastOp,
          current_theme, config_file, styleSheet, plugin_manager

vars == <<dirs, files, denied, current_path, currentIndex, my_selection_model,
          selectionModel, active_panel, toggled, lastOp,
          current_theme, config_file, styleSheet, plugin_manager>>

\* The two FileExplorerPanel objects of the main window.
Panes == {"left", "right"}

\* The target panel chosen as the right panel whatever the source is.
Opposite_AlwaysRight(p) == "right"

\* The pane a copy or move writes to.
Opposite(p) == IF p = "left" THEN "right" ELSE "left"

\* QDir.rootPath()
Root == <<>>

\* os.path.expanduser("~"), where both panes start: the user's home
\* directory, here the root directory itself.
StartPath == Root

\* An invalid QModelIndex: the tree has no current index.
NoIndex == <<"<invalid>">>

\* Every name an entry can have, in the order the file model sorts rows.
NameOrder == <<"a.txt", "b", "c">>

\* The file system the program starts in: /a.txt and the empty folder /b.
InitDirs == {Root, <<"b">>}

InitFiles == {<<"a.txt">>}

----------------------------------------------------------------------------
\* os.path

\* A relative path is the sequence of its components after the marker Here:
\* <<Here>> is ".", <<Here, "b">> is "b", <<Here, "b", "c">> is "b/c".
Here == "<cwd>"

isrel(path) == path # <<>> /\ path[1] = Here

\* The empty string as a path, what os.path.dirname gives for "b" and ".".
NoPath == <<"">>

\* The working directory of the program, os.getcwd().
Cwd == <<"b">>

\* os.path.dirname of a normalized path
dirname(path) ==
    IF path = <<>> THEN <<>>
    ELSE IF isrel(path) /\ Len(path) <= 2 THEN NoPath
    ELSE SubSeq(path, 1, Len(path) - 1)

\* os.path.basename of a normalized path
basename(path) == IF path = <<>> THEN "" ELSE path[Len(path)]

\* os.path.join(dir, name)
join(dir, name) == Append(dir, name)

RECURSIVE normFrom(_, _)
normFrom(acc, rest) ==
    IF rest = <<>> THEN acc
    ELSE LET c == Head(rest) IN
         IF c = "." THEN normFrom(acc, Tail(rest))
         ELSE IF c = ".."
         THEN IF acc = <<>> THEN normFrom(acc, Tail(rest))
              ELSE IF isrel(acc) /\ (Len(acc) = 1 \/ acc[Len(acc)] = "..")
              THEN normFrom(Append(acc, c), Tail(rest))
              ELSE normFrom(SubSeq(acc, 1, Len(acc) - 1), Tail(rest))
         ELSE normFrom(Append(acc, c), Tail(rest))

\* os.path.normpath: drops "." and folds "name/.." textually; a relative
\* path stays relative.
normpath(path) ==
    IF isrel(path) THEN normFrom(<<Here>>, Tail(path)) ELSE normFrom(<<>>, path)

RECURSIVE walk(_, _, _, _)
walk(D, F, at, rest) ==
    IF rest = <<>> THEN at \in (D \cup F)
    ELSE IF at \notin D THEN FALSE
    ELSE LET c == Head(rest) IN
         IF c = "." THEN walk(D, F, at, Tail(rest))
         ELSE IF c = ".." THEN walk(D, F, dirname(at), Tail(rest))
         ELSE walk(D, F, Append(at, c), Tail(rest))

\* os.path.exists: the file system resolves the path component by
\* component, a relative path from the working directory.
exists(D, F, path) ==
    IF path = NoPath THEN FALSE
    ELSE IF isrel(path) THEN walk(D, F, Cwd, Tail(path))
    ELSE walk(D, F, <<>>, path)

\* The absolute path QFileSystemModel.index makes of a path.
absolutePath(path) ==
    IF isrel(path) THEN normFrom(Cwd, Tail(path)) ELSE path

\* os.path.isdir / os.path.isfile of a normalized path
isdir(D, path) == path \in D

isfile(F, path) == path \in F

----------------------------------------------------------------------------
\* The rows of a pane

RECURSIVE rowsFrom(_, _, _, _)
rowsFrom(D, F, dir, i) ==
    IF i > Len(NameOrder) THEN <<>>
    ELSE IF join(dir, NameOrder[i]) \in (D \cup F)
         THEN <<join(dir, NameOrder[i])>> \o rowsFrom(D, F, dir, i + 1)
         ELSE rowsFrom(D, F, dir, i + 1)

\* The rows the tree shows under its root index, top to bottom: the children
\* of the root in the model's order; a root that is a file has no rows.
viewItems(D, F, root) ==
    IF absolutePath(root) \in D THEN rowsFrom(D, F, absolutePath(root), 1)
    ELSE <<>>

listing(p) == viewItems(dirs, files, current_path[p])

Range(s) == {s[i] : i \in 1..Len(s)}

\* QTreeViewPrivate::viewIndex: the row number of an index, -1 when the
\* index is not one of the rows shown (Qt counts rows from 0, this from 1,
\* so "not shown" is 0 here).
viewIndex(rows, idx) ==
    IF idx \in Range(rows) THEN CHOOSE i \in 1..Len(rows) : rows[i] = idx ELSE 0

\* QModelIndex.isValid
isValid(idx) == idx # NoIndex

\* QTreeView.indexAbove
indexAbove(rows, idx) ==
    IF ~isValid(idx) THEN NoIndex
    ELSE LET i == viewIndex(rows, idx) - 1 IN
         IF i < 1 THEN NoIndex ELSE rows[i]

\* QTreeView.indexBelow
indexBelow(rows, idx) ==
    IF ~isValid(idx) THEN NoIndex
    ELSE LET i == viewIndex(rows, idx) + 1 IN
         IF i > Len(rows) THEN NoIndex ELSE rows[i]

----------------------------------------------------------------------------
\* FileExplorerTree and FileExplorerPanel, on the state of one pane

\* The fields of pane p that its own methods read and write; err records
\* that a QMessageBox.warning was raised.
PaneOf(p) ==
    [current_path |-> current_path[p],
     currentIndex |-> currentIndex[p],
     selected     |-> my_selection_model[p],
     err          |-> FALSE]

\* toggle_selection without its Deselect branch.
toggle_selection_SelectOnly(pane, index) ==
    [pane EXCEPT !.selected = pane.selected \cup {index}]

\* FileExplorerTree.toggle_selection
toggle_selection(pane, index) ==
    IF index \in pane.selected
    THEN [pane EXCEPT !.selected = pane.selected \ {index}]
    ELSE [pane EXCEPT !.selected = pane.selected \cup {index}]

\* FileExplorerTree.move_focus_up
move_focus_up(rows, pane, current) ==
    IF isValid(current) /\ isValid(indexAbove(rows, current))
    THEN [pane EXCEPT !.currentIndex = indexAbove(rows, current)]
    ELSE pane

\* move_focus_down wrapping from the last row to the first.
move_focus_down_Wraps(rows, pane, current) ==
    IF isValid(current) /\ isValid(indexBelow(rows, current))
    THEN [pane EXCEPT !.currentIndex = indexBelow(rows, current)]
    ELSE IF isValid(current) /\ rows # <<>>
    THEN [pane EXCEPT !.currentIndex = rows[1]]
    ELSE pane

\* FileExplorerTree.move_focus_down
move_focus_down(rows, pane, current) ==
    IF isValid(current) /\ isValid(indexBelow(rows, current))
    THEN [pane EXCEPT !.currentIndex = indexBelow(rows, current)]
    ELSE pane

\* navigate_to_path clearing the custom selection when it re-roots the tree.
navigate_to_path_ClearsSelection(D, F, pane, path) ==
    IF ~exists(D, F, path)
    THEN [pane EXCEPT !.err = TRUE]
    ELSE [pane EXCEPT !.current_path = normpath(path), !.selected = {}]

\* navigate_to_path assigning current_path before it tests the path.
navigate_to_path_AssignsFirst(D, F, pane, path) ==
    IF ~exists(D, F, path)
    THEN [pane EXCEPT !.current_path = normpath(path), !.err = TRUE]
    ELSE [pane EXCEPT !.current_path = normpath(path)]

\* FileExplorerPanel.navigate_to_path
navigate_to_path(D, F, pane, path) ==
    IF ~exists(D, F, path)
    THEN [pane EXCEPT !.err = TRUE]
    ELSE [pane EXCEPT !.current_path = normpath(path)]

\* FileExplorerPanel.go_up
go_up(D, F, pane) ==
    LET parent_dir == dirname(pane.current_path) IN
    IF parent_dir # NoPath /\ exists(D, F, parent_dir)
    THEN navigate_to_path(D, F, pane, parent_dir)
    ELSE pane

\* FileExplorerPanel.set_focus_to_first_item: main.py calls it, the panel
\* class does not define it; it puts the current index on the first row.
set_focus_to_first_item(rows, pane) ==
    IF rows # <<>> THEN [pane EXCEPT !.currentIndex = rows[1]] ELSE pane

\* The two panels sharing one selection model.
SetPane_SharedSelection(p, pane) ==
    /\ current_path' = [current_path EXCEPT ![p] = pane.current_path]
    /\ currentIndex' = [currentIndex EXCEPT ![p] = pane.currentIndex]
    /\ my_selection_model' = [q \in Panes |-> pane.selected]

\* Writes a pane record back to pane p.
SetPane(p, pane) ==
    /\ current_path' = [current_path EXCEPT ![p] = pane.current_path]
    /\ currentIndex' = [currentIndex EXCEPT ![p] = pane.currentIndex]
    /\ my_selection_model' = [my_selection_model EXCEPT ![p] = pane.selected]

\* set_active_panel losing the panel it is given.
set_active_panel_None(panel) == "none"

\* GXplorerMainWindow.set_active_panel
set_active_panel(panel) == panel

\* The record of the last command: its name, the pane it was delivered to,
\* whether it raised a warning box, the paths a file command worked on, the
\* target_panel of a copy or move, and the answer to a question box ("" when
\* none was raised).
Op(name, p, err, targets) ==
    [op |-> name, pane |-> p, err |-> err, targets |-> targets,
     dest |-> "", answer |-> ""]

\* A PluginManager after PluginManager.__init__ with no plugins folder and
\* a main window without plugins_menu.  attempted lists the plugin names
\* whose module load_plugins has started to load, raised tells that an
\* exception has left load_plugins.
NoPluginManager ==
    [main_window |-> [plugins_menu |-> FALSE],
     plugins_folder |-> [exists |-> FALSE, listdir |-> <<>>],
     loaded_plugins |-> <<>>, attempted |-> <<>>, raised |-> FALSE]

\* A FileExplorerPanel after FileExplorerPanel.__init__(start_path).
NewPanel(D, F, start_path) ==
    navigate_to_path(D, F,
        [current_path |-> start_path, currentIndex |-> NoIndex,
         selected |-> {}, err |-> FALSE],
        start_path)

\* The state after GXplorerMainWindow.__init__: two panels on the home
\* directory, the left one active with its first row focused.
Init ==
    LET left == set_focus_to_first_item(
                    viewItems(InitDirs, InitFiles, StartPath),
                    NewPanel(InitDirs, InitFiles, StartPath))
        right == NewPanel(InitDirs, InitFiles, StartPath)
    IN
    /\ dirs = InitDirs
    /\ files = InitFiles
    /\ denied = {}
    /\ current_path = [p \in Panes |->
                         IF p = "left" THEN left.current_path ELSE right.current_path]
    /\ currentIndex = [p \in Panes |->
                         IF p = "left" THEN left.currentIndex ELSE right.currentIndex]
    /\ my_selection_model = [p \in Panes |-> {}]
    /\ selectionModel = [p \in Panes |-> {}]
    /\ active_panel = set_active_panel("left")
    /\ toggled = [p \in Panes |-> {}]
    /\ lastOp = Op("init", "left", FALSE, {})
    /\ current_theme = "dark"
    /\ config_file = [content |-> <<"<missing>">>, writable |-> TRUE]
    /\ styleSheet = "dark"
    /\ plugin_manager = NoPluginManager

----------------------------------------------------------------------------
\* Key and mouse events delivered to the tree of pane p

\* keyPressEvent toggling on Key_Space without asking current.isValid().
KeySpace_NoValidTest(p) ==
    LET current == currentIndex[p] IN
    /\ SetPane(p, toggle_selection(PaneOf(p), current))
    /\ toggled' = [toggled EXCEPT ![p] = (@ \ {current}) \cup ({current} \ @)]
    /\ lastOp' = Op("space", p, FALSE, {})
    /\ UNCHANGED <<dirs, files, selectionModel, active_panel, denied,
                   current_theme, config_file, styleSheet, plugin_manager>>

\* FileExplorerTree.keyPressEvent, Qt.Key_Space
KeySpace(p) ==
    LET current == currentIndex[p] IN
    /\ IF isValid(current)
       THEN /\ SetPane(p, toggle_selection(PaneOf(p), current))
            /\ toggled' = [toggled EXCEPT ![p] =
                             (@ \ {current}) \cup ({current} \ @)]
       ELSE UNCHANGED <<current_path, currentIndex, my_selection_model, toggled>>
    /\ lastOp' = Op("space", p, FALSE, {})
    /\ UNCHANGED <<dirs, files, selectionModel, active_panel, denied,
                   current_theme, config_file, styleSheet, plugin_manager>>

\* FileExplorerTree.keyPressEvent, Qt.Key_Up
KeyUp(p) ==
    /\ SetPane(p, move_focus_up(listing(p), PaneOf(p), currentIndex[p]))
    /\ lastOp' = Op("up", p, FALSE, {})
    /\ UNCHANGED <<dirs, files, selectionModel, active_panel, toggled, denied,
                   current_theme, config_file, styleSheet, plugin_manager>>

\* FileExplorerTree.keyPressEvent, Qt.Key_Down
KeyDown(p) ==
    /\ SetPane(p, move_focus_down(listing(p), PaneOf(p), currentIndex[p]))
    /\ lastOp' = Op("down", p, FALSE, {})
    /\ UNCHANGED <<dirs, files, selectionModel, active_panel, toggled, denied,
                   current_theme, config_file, styleSheet, plugin_manager>>

\* mousePressEvent toggling the row on a right click.
MousePress_RightSelects(p, idx, button) ==
    /\ currentIndex' = IF isValid(idx) THEN [currentIndex EXCEPT ![p] = idx]
                       ELSE currentIndex
    /\ active_panel' = IF isValid(idx) /\ button = "left"
                       THEN set_active_panel(p) ELSE active_panel
    /\ my_selection_model' =
          IF isValid(idx) /\ button = "right"
          THEN [my_selection_model EXCEPT ![p] = toggle_selection(PaneOf(p), idx).selected]
          ELSE my_selection_model
    /\ lastOp' = Op(IF button = "left" THEN "click" ELSE "rclick", p, FALSE, {})
    /\ UNCHANGED <<dirs, files, current_path, selectionModel, toggled, denied,
                   current_theme, config_file, styleSheet, plugin_manager>>

\* FileExplorerTree.mousePressEvent on row idx (NoIndex: below the rows),
\* and for the left button the tree's clicked signal that follows it.
MousePress(p, idx, button) ==
    /\ currentIndex' = IF isValid(idx) THEN [currentIndex EXCEPT ![p] = idx]
                       ELSE currentIndex
    /\ active_panel' = IF isValid(idx) /\ button = "left"
                       THEN set_active_panel(p) ELSE active_panel
    /\ lastOp' = Op(IF button = "left" THEN "click" ELSE "rclick", p, FALSE, {})
    /\ UNCHANGED <<dirs, files, current_path, my_selection_model,
                   selectionModel, toggled, denied,
                   current_theme, config_file, styleSheet, plugin_manager>>

\* eventFilter always switching to the left panel.
KeyTab_AlwaysLeft ==
    LET to == "left" IN
    /\ selectionModel' = [p \in Panes |-> {}]
    /\ active_panel' = set_active_panel(to)
    /\ SetPane(to, set_focus_to_first_item(listing(to), PaneOf(to)))
    /\ lastOp' = Op("tab", to, FALSE, {})
    /\ UNCHANGED <<dirs, files, toggled, denied,
                   current_theme, config_file, styleSheet, plugin_manager>>

\* GXplorerMainWindow.eventFilter, Qt.Key_Tab
KeyTab ==
    LET to == Opposite(active_panel) IN
    /\ selectionModel' = [p \in Panes |-> {}]
    /\ active_panel' = set_active_panel(to)
    /\ SetPane(to, set_focus_to_first_item(listing(to), PaneOf(to)))
    /\ lastOp' = Op("tab", to, FALSE, {})
    /\ UNCHANGED <<dirs, files, toggled, denied,
                   current_theme, config_file, styleSheet, plugin_manager>>

----------------------------------------------------------------------------
\* Navigation commands of pane p

\* The texts typed into the path bar.
RawPaths ==
    dirs \cup files \cup {<<"nope">>, <<"b", "..">>, <<".", "b">>}

\* FileExplorerPanel.on_path_entered (Return in the path bar, or Go)
OnPathEntered(p, new_path) ==
    LET r == navigate_to_path(dirs, files, PaneOf(p), new_path) IN
    /\ SetPane(p, r)
    /\ lastOp' = Op("nav", p, r.err, {})
    /\ UNCHANGED <<dirs, files, selectionModel, active_panel, toggled, denied,
                   current_theme, config_file, styleSheet, plugin_manager>>

\* FileExplorerPanel.go_up (the Up button)
GoUp(p) ==
    LET r == go_up(dirs, files, PaneOf(p)) IN
    /\ SetPane(p, r)
    /\ lastOp' = Op("go_up", p, r.err, {})
    /\ UNCHANGED <<dirs, files, selectionModel, active_panel, toggled, denied,
                   current_theme, config_file, styleSheet, plugin_manager>>

\* FileExplorerPanel.on_drive_changed: the combo box holds the drive roots.
OnDriveChanged(p) ==
    LET r == navigate_to_path(dirs, files, PaneOf(p), Root) IN
    /\ SetPane(p, r)
    /\ lastOp' = Op("drive", p, r.err, {})
    /\ UNCHANGED <<dirs, files, selectionModel, active_panel, toggled, denied,
                   current_theme, config_file, styleSheet, plugin_manager>>

\* GXplorerMainWindow.on_f2_refresh
OnF2Refresh ==
    LET p == active_panel
        r == navigate_to_path(dirs, files, PaneOf(p), current_path[p]) IN
    /\ SetPane(p, r)
    /\ lastOp' = Op("f2", p, r.err, {})
    /\ UNCHANGED <<dirs, files, selectionModel, active_panel, toggled, denied,
                   current_theme, config_file, styleSheet, plugin_manager>>

----------------------------------------------------------------------------
\* shutil and os on the file system [dirs, files, denied]; err records that
\* a call raised and the handler showed its QMessageBox.warning.

IsPrefix(a, b) == Len(a) <= Len(b) /\ SubSeq(b, 1, Len(a)) = a

\* A path and everything below it.
Subtree(fs, path) == {q \in fs.dirs \cup fs.files : IsPrefix(path, q)}

\* The path q of the subtree of src, moved below dst instead.
Rebase(q, src, dst) == dst \o SubSeq(q, Len(src) + 1, Len(q))

Failed(fs) == [fs EXCEPT !.err = TRUE]

\* The body of the loop of on_f5_copy for one src: shutil.copy2 of a file,
\* shutil.copytree of a folder.
copy_item(fs, src, dest_dir) ==
    LET target_path == join(dest_dir, basename(src)) IN
    IF isfile(fs.files, src)
    THEN IF src \in fs.denied THEN Failed(fs)
         ELSE IF isdir(fs.dirs, dest_dir)
         THEN IF target_path = src \/ isdir(fs.dirs, target_path) THEN Failed(fs)
              ELSE [fs EXCEPT !.files = @ \cup {target_path}]
         ELSE IF dest_dir = src \/ ~isdir(fs.dirs, dirname(dest_dir))
         THEN Failed(fs)
         ELSE [fs EXCEPT !.files = @ \cup {dest_dir}]
    ELSE IF isdir(fs.dirs, src)
    THEN IF \/ src \in fs.denied
            \/ target_path \in fs.dirs \cup fs.files
            \/ ~isdir(fs.dirs, dest_dir)
         THEN Failed(fs)
         ELSE [fs EXCEPT
                 !.dirs = @ \cup {Rebase(q, src, target_path) :
                                    q \in Subtree(fs, src) \cap fs.dirs},
                 !.files = @ \cup {Rebase(q, src, target_path) :
                                    q \in Subtree(fs, src) \cap fs.files}]
    ELSE fs

\* The body of the loop of on_f6_move for one src: shutil.move(src, target_path)
move_item(fs, src, dest_dir) ==
    LET target_path == join(dest_dir, basename(src))
        real_dst == IF isdir(fs.dirs, target_path) /\ target_path # src
                    THEN join(target_path, basename(src)) ELSE target_path
        moved == Subtree(fs, src)
    IN
    IF src \notin fs.dirs \cup fs.files THEN Failed(fs)
    ELSE IF target_path = src THEN fs
    ELSE IF \/ src \in fs.denied
            \/ isdir(fs.dirs, target_path) /\ real_dst \in fs.dirs \cup fs.files
            \/ ~isdir(fs.dirs, dirname(real_dst))
            \/ isdir(fs.dirs, src) /\ IsPrefix(src, real_dst)
            \/ isdir(fs.dirs, src) /\ isfile(fs.files, real_dst)
         THEN Failed(fs)
    ELSE [fs EXCEPT
            !.dirs = (@ \ moved) \cup
                     {Rebase(q, src, real_dst) : q \in moved \cap fs.dirs},
            !.files = (@ \ moved) \cup
                      {Rebase(q, src, real_dst) : q \in moved \cap fs.files}]

\* The body of the loop of on_f8_delete for one path: os.remove of a file,
\* shutil.rmtree of a folder.
delete_item(fs, path) ==
    IF isfile(fs.files, path)
    THEN IF path \in fs.denied THEN Failed(fs)
         ELSE [fs EXCEPT !.files = @ \ {path}]
    ELSE IF isdir(fs.dirs, path)
    THEN IF path = Root \/ path \in fs.denied THEN Failed(fs)
         ELSE [fs EXCEPT !.dirs = @ \ Subtree(fs, path),
                         !.files = @ \ Subtree(fs, path)]
    ELSE fs

\* The copy loop leaving at the first item that fails.
RECURSIVE copy_all_StopsAtFailure(_, _, _)
copy_all_StopsAtFailure(fs, order, dest_dir) ==
    IF order = <<>> \/ fs.err THEN fs
    ELSE copy_all_StopsAtFailure(copy_item(fs, normpath(Head(order)), dest_dir),
                                 Tail(order), dest_dir)

RECURSIVE copy_all(_, _, _)
copy_all(fs, order, dest_dir) ==
    IF order = <<>> THEN fs
    ELSE copy_all(copy_item(fs, normpath(Head(order)), dest_dir),
                  Tail(order), dest_dir)

RECURSIVE move_all(_, _, _)
move_all(fs, order, dest_dir) ==
    IF order = <<>> THEN fs
    ELSE move_all(move_item(fs, normpath(Head(order)), dest_dir),
                  Tail(order), dest_dir)

RECURSIVE delete_all(_, _)
delete_all(fs, order) ==
    IF order = <<>> THEN fs
    ELSE delete_all(delete_item(fs, normpath(Head(order))), Tail(order))

\* The loop of on_f3_view and on_f4_edit: a file is handed to os.startfile
\* (opens tells whether that call returns), anything else is navigated to.
RECURSIVE open_all(_, _, _, _, _)
open_all(D, F, pane, order, opens) ==
    IF order = <<>> THEN pane
    ELSE LET path == Head(order) IN
         open_all(D, F,
                  IF isfile(F, path)
                  THEN (IF opens THEN pane ELSE [pane EXCEPT !.err = TRUE])
                  ELSE navigate_to_path(D, F, pane, path),
                  Tail(order), opens)

\* The orders in which a loop can visit a set of paths.
Orders(S) == {s \in [1..Cardinality(S) -> S] : Range(s) = S}

\* The file commands reading the custom selection model instead.
selectedIndexes_Custom(p) == my_selection_model[p]

\* The paths of panel.tree.selectionModel().selectedIndexes(): what F3, F4,
\* F5, F6 and F8 work on.
selectedIndexes(p) == selectionModel[p]

----------------------------------------------------------------------------
\* The function buttons of the main window

\* GXplorerMainWindow.on_f3_view
OnF3View(opens) ==
    LET p == active_panel
        selected_indexes == selectedIndexes(p) IN
    \E order \in Orders(selected_indexes) :
       LET r == open_all(dirs, files, PaneOf(p), order, opens) IN
       /\ SetPane(p, r)
       /\ lastOp' = Op("f3", p, r.err, selected_indexes)
       /\ UNCHANGED <<dirs, files, selectionModel, active_panel, toggled, denied,
                   current_theme, config_file, styleSheet, plugin_manager>>

\* GXplorerMainWindow.on_f4_edit
OnF4Edit(opens) ==
    LET p == active_panel
        selected_indexes == selectedIndexes(p) IN
    \E order \in Orders(selected_indexes) :
       LET r == open_all(dirs, files, PaneOf(p), order, opens) IN
       /\ SetPane(p, r)
       /\ lastOp' = Op("f4", p, r.err, selected_indexes)
       /\ UNCHANGED <<dirs, files, selectionModel, active_panel, toggled, denied,
                   current_theme, config_file, styleSheet, plugin_manager>>

\* The two navigate_to_path calls that end on_f5_copy and on_f6_move, and
\* the action's record.
Renavigate(name, fs, source, target, selected_paths) ==
    LET s == navigate_to_path(fs.dirs, fs.files, PaneOf(source), current_path[source])
        t == navigate_to_path(fs.dirs, fs.files, PaneOf(target), current_path[target])
    IN
    /\ dirs' = fs.dirs
    /\ files' = fs.files
    /\ current_path' = [current_path EXCEPT ![source] = s.current_path,
                                            ![target] = t.current_path]
    /\ currentIndex' = [currentIndex EXCEPT ![source] = s.currentIndex,
                                            ![target] = t.currentIndex]
    /\ my_selection_model' = [my_selection_model EXCEPT ![source] = s.selected,
                                                        ![target] = t.selected]
    /\ lastOp' = [Op(name, source, fs.err \/ s.err \/ t.err, selected_paths)
                    EXCEPT !.dest = target]

\* GXplorerMainWindow.on_f5_copy
OnF5Copy ==
    LET source_panel == active_panel
        target_panel == Opposite(source_panel)
        selected_paths == selectedIndexes(source_panel)
        dest_dir == current_path[target_panel]
        fs == [dirs |-> dirs, files |-> files, denied |-> denied, err |-> FALSE]
    IN
    /\ IF selected_paths # {}
       THEN \E order \in Orders(selected_paths) :
               Renavigate("f5", copy_all(fs, order, dest_dir),
                          source_panel, target_panel, selected_paths)
       ELSE /\ lastOp' = [Op("f5", source_panel, FALSE, {})
                           EXCEPT !.dest = target_panel]
            /\ UNCHANGED <<dirs, files, current_path, currentIndex,
                           my_selection_model>>
    /\ UNCHANGED <<selectionModel, active_panel, toggled, denied,
                   current_theme, config_file, styleSheet, plugin_manager>>

\* GXplorerMainWindow.on_f6_move
OnF6Move ==
    LET source_panel == active_panel
        target_panel == Opposite(source_panel)
        selected_paths == selectedIndexes(source_panel)
        dest_dir == current_path[target_panel]
        fs == [dirs |-> dirs, files |-> files, denied |-> denied, err |-> FALSE]
    IN
    /\ IF selected_paths # {}
       THEN \E order \in Orders(selected_paths) :
               Renavigate("f6", move_all(fs, order, dest_dir),
                          source_panel, target_panel, selected_paths)
       ELSE /\ lastOp' = [Op("f6", source_panel, FALSE, {})
                           EXCEPT !.dest = target_panel]
            /\ UNCHANGED <<dirs, files, current_path, currentIndex,
                           my_selection_model>>
    /\ UNCHANGED <<selectionModel, active_panel, toggled, denied,
                   current_theme, config_file, styleSheet, plugin_manager>>

\* on_f8_delete deleting whatever the answer to the question box is.
OnF8Delete_IgnoresAnswer(confirm) ==
    LET p == active_panel
        selected_paths == selectedIndexes(p)
        fs == [dirs |-> dirs, files |-> files, denied |-> denied, err |-> FALSE]
    IN
    /\ \E order \in Orders(selected_paths) :
          LET done == delete_all(fs, order)
              r == navigate_to_path(done.dirs, done.files, PaneOf(p),
                                    current_path[p])
          IN
          /\ dirs' = done.dirs
          /\ files' = done.files
          /\ SetPane(p, r)
          /\ lastOp' = [Op("f8", p, done.err \/ r.err, selected_paths)
                          EXCEPT !.answer = IF selected_paths = {} THEN ""
                                            ELSE IF confirm THEN "yes" ELSE "no"]
    /\ UNCHANGED <<selectionModel, active_panel, toggled, denied,
                   current_theme, config_file, styleSheet, plugin_manager>>

\* GXplorerMainWindow.on_f8_delete; confirm is the answer to the question box.
OnF8Delete(confirm) ==
    LET p == active_panel
        selected_paths == selectedIndexes(p)
        fs == [dirs |-> dirs, files |-> files, denied |-> denied, err |-> FALSE]
    IN
    /\ IF selected_paths # {} /\ confirm
       THEN \E order \in Orders(selected_paths) :
               LET done == delete_all(fs, order)
                   r == navigate_to_path(done.dirs, done.files, PaneOf(p),
                                         current_path[p])
               IN
               /\ dirs' = done.dirs
               /\ files' = done.files
               /\ SetPane(p, r)
               /\ lastOp' = [Op("f8", p, done.err \/ r.err, selected_paths)
                               EXCEPT !.answer = "yes"]
       ELSE /\ lastOp' = IF selected_paths # {}
                         THEN [Op("f8", p, FALSE, selected_paths)
                                 EXCEPT !.answer = "no"]
                         ELSE Op("f8", p, FALSE, {})
            /\ UNCHANGED <<dirs, files, current_path, currentIndex,
                           my_selection_model>>
    /\ UNCHANGED <<selectionModel, active_panel, toggled, denied,
                   current_theme, config_file, styleSheet, plugin_manager>>

\* FileExplorerPanel.delete_item on row index of pane p; ans is the answer
\* to the question box.
PanelDeleteItem(p, index, ans) ==
    LET path == index
        fs == [dirs |-> dirs, files |-> files, denied |-> denied, err |-> FALSE]
        done == IF path \in fs.denied \/ path \notin dirs \cup files
                THEN Failed(fs) ELSE delete_item(fs, path)
        r == IF ans /\ ~done.err
             THEN navigate_to_path(done.dirs, done.files, PaneOf(p), dirname(path))
             ELSE PaneOf(p)
    IN
    /\ dirs' = IF ans /\ ~done.err THEN done.dirs ELSE dirs
    /\ files' = IF ans /\ ~done.err THEN done.files ELSE files
    /\ SetPane(p, r)
    /\ lastOp' = [Op("delete_item", p, ans /\ (done.err \/ r.err), {path})
                    EXCEPT !.answer = IF ans THEN "yes" ELSE "no"]
    /\ UNCHANGED <<selectionModel, active_panel, toggled, denied,
                   current_theme, config_file, styleSheet, plugin_manager>>

Next ==
    \/ \E p \in Panes : KeySpace(p)
    \/ \E p \in Panes : KeyUp(p)
    \/ \E p \in Panes : KeyDown(p)
    \/ \E p \in Panes : \E idx \in Range(listing(p)) \cup {NoIndex} :
          \E button \in {"left", "right"} : MousePress(p, idx, button)
    \/ KeyTab
    \/ \E p \in Panes : \E new_path \in RawPaths : OnPathEntered(p, new_path)
    \/ \E p \in Panes : GoUp(p)
    \/ \E p \in Panes : OnDriveChanged(p)
    \/ OnF2Refresh
    \/ \E opens \in BOOLEAN : OnF3View(opens)
    \/ \E opens \in BOOLEAN : OnF4Edit(opens)
    \/ OnF5Copy
    \/ OnF6Move
    \/ \E confirm \in BOOLEAN : OnF8Delete(confirm)

----------------------------------------------------------------------------
\* FileExplorerDelegate

\* The columns of QFileSystemModel (Name, Size, Type, Date Modified), all
\* shown by the tree; a cell is a row and a column.
Columns == 0 .. 3

\* os.path.splitext(path)[1] of the names of the model.
splitext(name) == IF name = "a.txt" THEN ".txt" ELSE ""

\* FileExplorerDelegate.paint of the cell (index, column) of pane p, the
\* tree's current cell being in column current_column of row currentIndex[p].
paint(p, index, column, current_column) ==
    LET first_col == index
        is_selected == first_col \in my_selection_model[p]
        is_focused == <<index, column>> = <<currentIndex[p], current_column>>
    IN
    IF is_focused /\ is_selected THEN [bg |-> "black", fg |-> "red"]
    ELSE IF is_focused THEN [bg |-> "black", fg |-> "white"]
    ELSE IF is_selected THEN [bg |-> "red", fg |-> "black"]
    ELSE [bg |-> "Base",
          fg |-> IF isdir(dirs, index) THEN "cyan"
                 ELSE IF splitext(basename(index)) \in
                           {".zip", ".rar", ".7z", ".tar", ".gz", ".iso"}
                      THEN "violet"
                      ELSE "Text"]

----------------------------------------------------------------------------
\* The file commands on rows held by tree.selectionModel()

\* The loops of on_f5_copy, on_f6_move and on_f8_delete run only when the
\* tree's own selection model holds rows.  This is the main window with a
\* set of rows of the left (active) pane in that model, the right pane on
\* either folder, and any of the entries refused by the operating system.
InitBatch ==
    LET left == set_focus_to_first_item(
                    viewItems(InitDirs, InitFiles, StartPath),
                    NewPanel(InitDirs, InitFiles, StartPath))
    IN
    /\ dirs = InitDirs
    /\ files = InitFiles
    /\ denied \in SUBSET (InitFiles \cup (InitDirs \ {Root}))
    /\ \E d \in InitDirs :
          current_path = [p \in Panes |->
                            IF p = "left" THEN left.current_path
                            ELSE NewPanel(InitDirs, InitFiles, d).current_path]
    /\ currentIndex = [p \in Panes |->
                         IF p = "left" THEN left.currentIndex ELSE NoIndex]
    /\ my_selection_model = [p \in Panes |-> {}]
    /\ \E S \in SUBSET Range(viewItems(InitDirs, InitFiles, StartPath)) :
          selectionModel = [p \in Panes |-> IF p = "left" THEN S ELSE {}]
    /\ active_panel = set_active_panel("left")
    /\ toggled = [p \in Panes |-> {}]
    /\ lastOp = Op("init", "left", FALSE, {})
    /\ current_theme = "dark"
    /\ config_file = [content |-> <<"<missing>">>, writable |-> TRUE]
    /\ styleSheet = "dark"
    /\ plugin_manager = NoPluginManager

\* The file commands of the main window and of the panel's context menu.
NextBatch ==
    \/ OnF5Copy
    \/ OnF6Move
    \/ \E confirm \in BOOLEAN : OnF8Delete(confirm)
    \/ \E p \in Panes : \E index \in Range(listing(p)) :
          \E ans \in BOOLEAN : PanelDeleteItem(p, index, ans)

SpecBatch == InitBatch /\ [][NextBatch]_vars

----------------------------------------------------------------------------
\* Theme and configuration of the main window

\* The theme names: the two built-in ones and those of the .qss files.
Themes == {"dark", "light", "solar", "ocean"}

\* The answer of QFileDialog.getOpenFileName: "" when cancelled, else a
\* file of resources/themes, given as its base name without and with
\* extension.
NoFile == [stem |-> "", ext |-> ""]

ThemeFiles == {[stem |-> n, ext |-> ".qss"] : n \in Themes}

\* What resources/config.json holds: nothing (no file), text that is not
\* JSON, the object {} without "theme", or an object with "theme".
ConfigContents ==
    {<<"<missing>">>, <<"<corrupt>">>, <<>>} \cup {<<"theme", n>> : n \in Themes}

\* GXplorerMainWindow.load_config: the value current_theme has after it.
load_config(theme, config) ==
    IF config.content \in {<<"<missing>">>, <<"<corrupt>">>} THEN theme
    ELSE IF config.content = <<>> THEN "dark"
    ELSE config.content[2]

\* GXplorerMainWindow.save_config: the config file after it; a failure to
\* write is printed and nothing else happens.
save_config(theme, config) ==
    IF config.writable THEN [config EXCEPT !.content = <<"theme", theme>>]
    ELSE config

\* customization.apply_theme(widget, theme_name): the widget's style sheet
\* after it.
apply_theme(sheet, theme_name) ==
    IF theme_name = "dark" THEN "dark"
    ELSE IF theme_name = "light" THEN "light"
    ELSE sheet

\* Whether a call of apply_theme with these argument names binds to its
\* parameters (widget, theme_name); if not, the call raises TypeError.
apply_theme_binds(arguments) == arguments \subseteq {"widget", "theme_name"}

\* GXplorerMainWindow.toggle_dark_mode
ToggleDarkMode ==
    LET theme == IF current_theme # "dark" THEN "dark" ELSE "light" IN
    /\ current_theme' = theme
    /\ styleSheet' = apply_theme(styleSheet, theme)
    /\ config_file' = save_config(theme, config_file)
    /\ lastOp' = Op("toggle_dark_mode", active_panel, FALSE, {})
    /\ UNCHANGED <<dirs, files, denied, current_path, currentIndex,
                   my_selection_model, selectionModel, active_panel, toggled,
                   plugin_manager>>

\* GXplorerMainWindow.change_theme; theme_file is the answer of the file
\* dialog.  The call apply_theme(self, theme_name, theme_path=theme_file)
\* raises when it does not bind, and the handler ends there.
ChangeTheme(theme_file) ==
    LET theme_name == theme_file.stem
        binds == apply_theme_binds({"widget", "theme_name", "theme_path"})
    IN
    /\ IF theme_file = NoFile
       THEN /\ UNCHANGED <<current_theme, styleSheet, config_file>>
            /\ lastOp' = [Op("change_theme", active_panel, FALSE, {})
                            EXCEPT !.answer = "cancel"]
       ELSE /\ current_theme' = theme_name
            /\ styleSheet' = IF binds THEN apply_theme(styleSheet, theme_name)
                             ELSE styleSheet
            /\ config_file' = IF binds THEN save_config(theme_name, config_file)
                              ELSE config_file
            /\ lastOp' = [Op("change_theme", active_panel, ~binds, {})
                            EXCEPT !.answer = "chosen"]
    /\ UNCHANGED <<dirs, files, denied, current_path, currentIndex,
                   my_selection_model, selectionModel, active_panel, toggled,
                   plugin_manager>>

\* The next start of the program, as far as the theme goes:
\* current_theme = "dark", load_config() and apply_theme(self,
\* self.current_theme) of GXplorerMainWindow.__init__.
LoadConfig ==
    LET theme == load_config("dark", config_file) IN
    /\ current_theme' = theme
    /\ styleSheet' = apply_theme("", theme)
    /\ lastOp' = Op("load_config", "left", FALSE, {})
    /\ UNCHANGED <<dirs, files, denied, current_path, currentIndex,
                   my_selection_model, selectionModel, active_panel, toggled,
                   config_file, plugin_manager>>

\* The main window constructed with any config file there can be, the
\* panes as constructed.
InitTheme ==
    LET left == set_focus_to_first_item(
                    viewItems(InitDirs, InitFiles, StartPath),
                    NewPanel(InitDirs, InitFiles, StartPath))
        right == NewPanel(InitDirs, InitFiles, StartPath)
    IN
    /\ dirs = InitDirs
    /\ files = InitFiles
    /\ denied = {}
    /\ current_path = [p \in Panes |->
                         IF p = "left" THEN left.current_path ELSE right.current_path]
    /\ currentIndex = [p \in Panes |->
                         IF p = "left" THEN left.currentIndex ELSE right.currentIndex]
    /\ my_selection_model = [p \in Panes |-> {}]
    /\ selectionModel = [p \in Panes |-> {}]
    /\ active_panel = set_active_panel("left")
    /\ toggled = [p \in Panes |-> {}]
    /\ lastOp = Op("init", "left", FALSE, {})
    /\ \E content \in ConfigContents : \E writable \in BOOLEAN :
          config_file = [content |-> content, writable |-> writable]
    /\ current_theme = load_config("dark", config_file)
    /\ styleSheet = apply_theme("", current_theme)
    /\ plugin_manager = NoPluginManager

\* The theme commands: the Toggle Dark Mode button, View > Change Theme,
\* and closing and starting the program.
NextTheme ==
    \/ ToggleDarkMode
    \/ \E theme_file \in ThemeFiles \cup {NoFile} : ChangeTheme(theme_file)
    \/ LoadConfig

SpecTheme == InitTheme /\ [][NextTheme]_vars

----------------------------------------------------------------------------
\* PluginManager

\* The files the plugins folder can hold, each as the two parts
\* os.path.splitext gives.
PluginFileNames ==
    {[stem |-> "p1", ext |-> ".py"], [stem |-> "p2", ext |-> ".py"],
     [stem |-> "notes", ext |-> ".txt"]}

\* What a plugin file does: exec is what spec.loader.exec_module does ("ok",
\* or the class of what it raises), register is what the module's register
\* does ("none": the module defines no register).  "Exception" stands for
\* any class derived from Exception, "SystemExit" for one that is not
\* (SystemExit, KeyboardInterrupt).
Behaviours ==
    {[exec |-> "ok", register |-> r] :
        r \in {"none", "ok", "Exception", "SystemExit"}}
    \cup {[exec |-> e, register |-> "none"] : e \in {"Exception", "SystemExit"}}

\* filename.endswith(".py")
endswith_py(filename) == filename.ext = ".py"

\* One pass of the loop of load_plugins with an Exception of the plugin
\* leaving the loop instead of being printed.
load_plugin_ExceptionEscapes(pm, f) ==
    IF ~endswith_py(f.filename) THEN pm
    ELSE LET plugin_name == f.filename.stem
             tried == [pm EXCEPT !.attempted = Append(@, plugin_name)]
         IN
         IF f.does.exec # "ok" THEN [tried EXCEPT !.raised = TRUE]
         ELSE IF f.does.register = "none" THEN tried
         ELSE IF ~pm.main_window.plugins_menu THEN [tried EXCEPT !.raised = TRUE]
         ELSE IF f.does.register # "ok" THEN [tried EXCEPT !.raised = TRUE]
         ELSE [tried EXCEPT !.loaded_plugins = Append(@, plugin_name)]

\* One pass of the loop of load_plugins, for the file f of the listing.
\* "except Exception" catches what derives from Exception; anything else
\* leaves load_plugins.  Reading self.main_window.plugins_menu raises
\* AttributeError when the main window has no such attribute.
load_plugin(pm, f) ==
    IF ~endswith_py(f.filename) THEN pm
    ELSE LET plugin_name == f.filename.stem
             tried == [pm EXCEPT !.attempted = Append(@, plugin_name)]
         IN
         IF f.does.exec = "SystemExit" THEN [tried EXCEPT !.raised = TRUE]
         ELSE IF f.does.exec = "Exception" THEN tried
         ELSE IF f.does.register = "none" THEN tried
         ELSE IF ~pm.main_window.plugins_menu THEN tried
         ELSE IF f.does.register = "SystemExit" THEN [tried EXCEPT !.raised = TRUE]
         ELSE IF f.does.register = "Exception" THEN tried
         ELSE [tried EXCEPT !.loaded_plugins = Append(@, plugin_name)]

\* The loop of load_plugins over the rest of os.listdir(plugins_folder).
RECURSIVE load_each(_, _)
load_each(pm, rest) ==
    IF rest = <<>> \/ pm.raised THEN pm
    ELSE load_each(load_plugin(pm, Head(rest)), Tail(rest))

\* PluginManager.load_plugins
load_plugins(pm) ==
    IF ~pm.plugins_folder.exists THEN pm
    ELSE load_each(pm, pm.plugins_folder.listdir)

\* The call of load_plugins on a new PluginManager.
LoadPlugins ==
    /\ lastOp.op = "init"
    /\ plugin_manager' = load_plugins(plugin_manager)
    /\ lastOp' = Op("load_plugins", active_panel, plugin_manager'.raised, {})
    /\ UNCHANGED <<dirs, files, denied, current_path, currentIndex,
                   my_selection_model, selectionModel, active_panel, toggled,
                   current_theme, config_file, styleSheet>>

\* The listings os.listdir can give: any of the files, in any order, each
\* .py file doing any of the things a plugin can do.
Listings ==
    UNION {UNION {{[i \in 1..Cardinality(N) |->
                      [filename |-> order[i], does |-> does[order[i]]]] :
                   order \in Orders(N)} :
                  does \in {b \in [N -> Behaviours] :
                              \A n \in N : ~endswith_py(n) =>
                                 b[n] = [exec |-> "ok", register |-> "none"]}} :
           N \in SUBSET PluginFileNames}

\* The main window as constructed, with a PluginManager made for it: the
\* window with or without a plugins_menu, the folder missing or listed.
InitPlugins ==
    LET left == set_focus_to_first_item(
                    viewItems(InitDirs, InitFiles, StartPath),
                    NewPanel(InitDirs, InitFiles, StartPath))
        right == NewPanel(InitDirs, InitFiles, StartPath)
    IN
    /\ dirs = InitDirs
    /\ files = InitFiles
    /\ denied = {}
    /\ current_path = [p \in Panes |->
                         IF p = "left" THEN left.current_path ELSE right.current_path]
    /\ currentIndex = [p \in Panes |->
                         IF p = "left" THEN left.currentIndex ELSE right.currentIndex]
    /\ my_selection_model = [p \in Panes |-> {}]
    /\ selectionModel = [p \in Panes |-> {}]
    /\ active_panel = set_active_panel("left")
    /\ toggled = [p \in Panes |-> {}]
    /\ lastOp = Op("init", "left", FALSE, {})
    /\ current_theme = "dark"
    /\ config_file = [content |-> <<"<missing>">>, writable |-> TRUE]
    /\ styleSheet = "dark"
    /\ \E menu \in BOOLEAN :
          \E folder \in {[exists |-> FALSE, listdir |-> <<>>]}
                        \cup {[exists |-> TRUE, listdir |-> l] : l \in Listings} :
             plugin_manager = [NoPluginManager EXCEPT
                                 !.main_window = [plugins_menu |-> menu],
                                 !.plugins_folder = folder]

NextPlugins == LoadPlugins

SpecPlugins == InitPlugins /\ [][NextPlugins]_vars

----------------------------------------------------------------------------
\* The Up button in a deeper file system

\* How deep the folders of this file system go.
MaxDepth == 3

\* The folder /b/b/.../b, k deep.
Chain(k) == [i \in 1..k |-> "b"]

\* The texts the path bar accepts in the file system (D, F): the absolute
\* path of every entry and, for the entries in and under the working
\* directory, the relative one.
TypedPaths(D, F) ==
    D \cup F \cup {<<Here>> \o SubSeq(q, Len(Cwd) + 1, Len(q)) :
                     q \in {x \in D \cup F : IsPrefix(Cwd, x)}}

\* The main window some time after its start in a file system of nested
\* folders b, each with or without a file a.txt: each pane has been sent,
\* through its path bar, to some path that exists; the left pane's cursor is
\* still where construction put it.
InitGoUp ==
    \E depth \in 1..MaxDepth :
       LET D == {Chain(k) : k \in 0..depth} IN
       \E F \in SUBSET {join(d, "a.txt") : d \in D} :
          LET left == set_focus_to_first_item(viewItems(D, F, StartPath),
                                              NewPanel(D, F, StartPath))
          IN
          /\ dirs = D
          /\ files = F
          /\ denied = {}
          /\ current_path \in [Panes -> {normpath(q) : q \in TypedPaths(D, F)}]
          /\ currentIndex = [p \in Panes |->
                               IF p = "left" THEN left.currentIndex ELSE NoIndex]
          /\ my_selection_model = [p \in Panes |-> {}]
          /\ selectionModel = [p \in Panes |-> {}]
          /\ active_panel = set_active_panel("left")
          /\ toggled = [p \in Panes |-> {}]
          /\ lastOp = Op("nav", "left", FALSE, {})
          /\ current_theme = "dark"
          /\ config_file = [content |-> <<"<missing>">>, writable |-> TRUE]
          /\ styleSheet = "dark"
          /\ plugin_manager = NoPluginManager

NextGoUp == \E p \in Panes : GoUp(p)

\* The user keeps pressing the Up button of each pane.
SpecGoUp ==
    InitGoUp /\ [][NextGoUp]_vars /\ \A p \in Panes : WF_vars(GoUp(p))

----------------------------------------------------------------------------
\* The Rename command of the panel's context menu

\* The texts the Rename dialog can return: a name, given as its components
\* ("b/c" is <<"b", "c">>, the empty text is <<>>), with or without blanks
\* around it.
NewNames ==
    {[pad |-> pad, name |-> n] :
        pad \in BOOLEAN,
        n \in {<<>>, <<"a.txt">>, <<"b">>, <<"c">>, <<"b", "c">>}}

\* new_name.strip()
strip(text) == text.name

\* os.rename(path, new_path) where, as on Windows, an existing new_path
\* makes it raise.
rename(fs, path, new_path) ==
    IF \/ path \notin fs.dirs \cup fs.files
       \/ path \in fs.denied
       \/ new_path \in fs.dirs \cup fs.files
       \/ ~isdir(fs.dirs, dirname(new_path))
       \/ IsPrefix(path, new_path)
    THEN Failed(fs)
    ELSE LET moved == Subtree(fs, path) IN
         [fs EXCEPT
            !.dirs = (@ \ moved) \cup
                     {Rebase(q, path, new_path) : q \in moved \cap fs.dirs},
            !.files = (@ \ moved) \cup
                      {Rebase(q, path, new_path) : q \in moved \cap fs.files}]

\* rename_item renaming although the dialog was cancelled.
PanelRenameItem_IgnoresCancel(p, index, ok, text) ==
    LET path == index
        new_name == strip(text)
        new_path == dirname(path) \o new_name
        fs == [dirs |-> dirs, files |-> files, denied |-> denied, err |-> FALSE]
        done == rename(fs, path, new_path)
        r == navigate_to_path(done.dirs, done.files, PaneOf(p), dirname(new_path))
    IN
    /\ IF new_name = <<>>
       THEN /\ UNCHANGED <<dirs, files, current_path, currentIndex,
                           my_selection_model>>
            /\ lastOp' = [Op("rename_item", p, FALSE, {path})
                            EXCEPT !.answer = "blank"]
       ELSE IF exists(dirs, files, new_path)
       THEN /\ UNCHANGED <<dirs, files, current_path, currentIndex,
                           my_selection_model>>
            /\ lastOp' = [Op("rename_item", p, TRUE, {path})
                            EXCEPT !.answer = "exists"]
       ELSE IF done.err
       THEN /\ UNCHANGED <<dirs, files, current_path, currentIndex,
                           my_selection_model>>
            /\ lastOp' = [Op("rename_item", p, TRUE, {path})
                            EXCEPT !.answer = "failed"]
       ELSE /\ dirs' = done.dirs
            /\ files' = done.files
            /\ SetPane(p, r)
            /\ lastOp' = [Op("rename_item", p, r.err, {path})
                            EXCEPT !.answer = "renamed"]
    /\ UNCHANGED <<selectionModel, active_panel, toggled, denied,
                   current_theme, config_file, styleSheet, plugin_manager>>

\* FileExplorerPanel.rename_item on row index of pane p; ok and text are
\* what QInputDialog.getText returns.
PanelRenameItem(p, index, ok, text) ==
    LET path == index
        new_name == strip(text)
        new_path == dirname(path) \o new_name
        fs == [dirs |-> dirs, files |-> files, denied |-> denied, err |-> FALSE]
        done == rename(fs, path, new_path)
        r == navigate_to_path(done.dirs, done.files, PaneOf(p), dirname(new_path))
    IN
    /\ IF ~ok \/ new_name = <<>>
       THEN /\ UNCHANGED <<dirs, files, current_path, currentIndex,
                           my_selection_model>>
            /\ lastOp' = [Op("rename_item", p, FALSE, {path})
                            EXCEPT !.answer = IF ok THEN "blank" ELSE "cancel"]
       ELSE IF exists(dirs, files, new_path)
       THEN /\ UNCHANGED <<dirs, files, current_path, currentIndex,
                           my_selection_model>>
            /\ lastOp' = [Op("rename_item", p, TRUE, {path})
                            EXCEPT !.answer = "exists"]
       ELSE IF done.err
       THEN /\ UNCHANGED <<dirs, files, current_path, currentIndex,
                           my_selection_model>>
            /\ lastOp' = [Op("rename_item", p, TRUE, {path})
                            EXCEPT !.answer = "failed"]
       ELSE /\ dirs' = done.dirs
            /\ files' = done.files
            /\ SetPane(p, r)
            /\ lastOp' = [Op("rename_item", p, r.err, {path})
                            EXCEPT !.answer = "renamed"]
    /\ UNCHANGED <<selectionModel, active_panel, toggled, denied,
                   current_theme, config_file, styleSheet, plugin_manager>>

NextRename ==
    \E p \in Panes : \E index \in Range(listing(p)) :
       \E ok \in BOOLEAN : \E text \in NewNames : PanelRenameItem(p, index, ok, text)

\* Rename on the rows of both panes, from the states the file commands
\* start in.
SpecRename == InitBatch /\ [][NextRename]_vars

----------------------------------------------------------------------------
\* Properties

\* The commands that call navigate_to_path on the pane they are given.
NavOps == {"nav", "go_up", "drive", "f2"}

\* The commands that copy, move or delete.
FileOps == {"f5", "f6", "f8"}

\* F3 and F4 with the file commands.
TargetOps == FileOps \cup {"f3", "f4"}

\* C1: in every pane an entry is selected in the custom selection model
\* exactly if it was toggled an odd number of times, and a space-bar toggle
\* changes the selected status of no entry but the one under the cursor of
\* the pane that got the key.
C1_ToggleParity ==
    /\ [](\A p \in Panes : my_selection_model[p] = toggled[p])
    /\ [][lastOp'.op = "space" =>
            \A p \in Panes :
               \A id \in my_selection_model[p] \cup my_selection_model'[p] :
                  (id \in my_selection_model[p]) # (id \in my_selection_model'[p])
                     => p = lastOp'.pane /\ id = currentIndex[p]]_vars

\* C1 witness: the last key was a space on a.txt, which is therefore toggled
\* an even number of times and not selected, while b, toggled before, is.
C1_Witness ==
    /\ lastOp.op = "space"
    /\ currentIndex[lastOp.pane] = <<"a.txt">>
    /\ my_selection_model[lastOp.pane] = {<<"b">>}

\* C2: with nothing selected in the active pane, F3, F4, F5, F6 and F8 work
\* on exactly the entry under the cursor, and on nothing when the cursor is
\* unset.
C2_FocusFallback ==
    [][lastOp'.op \in TargetOps /\ my_selection_model[active_panel] = {} =>
         lastOp'.targets =
            IF isValid(currentIndex[active_panel])
            THEN {currentIndex[active_panel]} ELSE {}]_vars

\* C3: with a non-empty set of rows of the active pane toggled, F5, F6 and
\* F8 work on exactly those rows.
C3_SelectedAreTargets ==
    [][/\ lastOp'.op \in FileOps
       /\ my_selection_model[active_panel] # {}
       /\ my_selection_model[active_panel] \subseteq Range(listing(active_panel))
       => lastOp'.targets = my_selection_model[active_panel]]_vars

\* C4: a step that makes pane B active while the other pane had entries
\* selected leaves the other pane with none selected.
C4_SwitchClearsOther ==
    [][active_panel' # active_panel /\ my_selection_model[active_panel] # {} =>
         my_selection_model'[active_panel] = {}]_vars

\* C5: a navigation command, successful or not, to the same path or to
\* another, leaves the selection set of its pane as it was.
C5_NavigateKeepsSelection ==
    [][lastOp'.op \in NavOps =>
         my_selection_model'[lastOp'.pane] = my_selection_model[lastOp'.pane]]_vars

\* C5 witness: a pane was navigated into /b and /a.txt, which /b does not
\* show, is still in its selection set.
C5_Witness ==
    /\ lastOp.op = "nav" /\ ~lastOp.err
    /\ current_path[lastOp.pane] = <<"b">>
    /\ <<"a.txt">> \in my_selection_model[lastOp.pane]

\* C6: every path F5, F6 or F8 works on is a row of the active pane's
\* current directory.
C6_TargetsAreListed ==
    [][lastOp'.op \in FileOps =>
         lastOp'.targets \subseteq Range(listing(active_panel))]_vars

\* C6 witness: F8 was pressed in a pane that shows /b while /a.txt, toggled
\* before the pane left its directory, is still selected and still exists.
C6_Witness ==
    /\ lastOp.op = "f8"
    /\ current_path[active_panel] = <<"b">>
    /\ <<"a.txt">> \in my_selection_model[active_panel]
    /\ <<"a.txt">> \in files

C8_CursorInListing ==
    /\ [](\A p \in Panes :
            IF isValid(currentIndex[p])
            THEN currentIndex[p] \in Range(listing(p))
            ELSE listing(p) = <<>>)
    /\ [][lastOp'.op \in NavOps /\ ~lastOp'.err =>
            LET p == lastOp'.pane
                rows == viewItems(dirs', files', current_path'[p])
            IN currentIndex'[p] = IF rows # <<>> THEN rows[1] ELSE NoIndex]_vars

\* C9: entering a path that does not exist raises the warning and changes
\* neither current_path (which is the tree's root), nor the cursor, nor the
\* selection set.
C9_MissingPathChangesNothing ==
    [][\A p \in Panes : \A path \in {q \in RawPaths : ~exists(dirs, files, q)} :
          OnPathEntered(p, path) =>
             /\ lastOp'.err
             /\ UNCHANGED <<current_path, currentIndex, my_selection_model>>]_vars

\* C9 witness: a navigation has just failed in a pane that had left the
\* start directory and has a selection.
C9_Witness ==
    /\ lastOp.op = "nav" /\ lastOp.err
    /\ current_path[lastOp.pane] = <<"b">>
    /\ my_selection_model[lastOp.pane] # {}

\* C10: current_path always names a folder, and entering the path of a
\* regular file is refused with the pane unchanged.
C10_OnlyFoldersAccepted ==
    /\ [](\A p \in Panes : isdir(dirs, current_path[p]))
    /\ [][\A p \in Panes : \A path \in {q \in RawPaths : isfile(files, normpath(q))} :
             OnPathEntered(p, path) =>
                /\ lastOp'.err
                /\ UNCHANGED <<current_path, currentIndex, my_selection_model>>]_vars

\* The commands delivered to one pane: navigation, cursor moves and toggles.
PaneOps == NavOps \cup {"up", "down", "click", "rclick", "space"}

\* C11: after construction active_panel is always one of the two panes, it
\* is the left one at first, and it changes only in a step that calls
\* set_active_panel (a click on a row, or Tab), to the pane given there.
C11_ActivePanel ==
    /\ [](active_panel \in {"left", "right"})
    /\ [](lastOp.op = "init" => active_panel = "left")
    /\ [][active_panel' # active_panel =>
            lastOp'.op \in {"click", "tab"} /\ active_panel' = lastOp'.pane]_vars

\* C11 witness: a click has made the right pane the active one.
C11_Witness == lastOp.op = "click" /\ active_panel = "right"

\* C12: a navigation, a cursor move, a click or a toggle delivered to one
\* pane leaves the other pane's current_path, cursor and selection set as
\* they were.
C12_PanesIndependent ==
    [][lastOp'.op \in PaneOps =>
         \A q \in Panes \ {lastOp'.pane} :
            /\ current_path'[q] = current_path[q]
            /\ currentIndex'[q] = currentIndex[q]
            /\ my_selection_model'[q] = my_selection_model[q]]_vars

\* C12 witness: the right pane has just been toggled while the left pane
\* is elsewhere and has a selection of its own.
C12_Witness ==
    /\ lastOp.op = "space" /\ lastOp.pane = "right"
    /\ my_selection_model["right"] = {<<"b">>}
    /\ my_selection_model["left"] = {<<"a.txt">>}
    /\ current_path["left"] = <<"b">>
    /\ current_path["right"] = Root

\* C13: Key_Space with no current index changes neither the selection set,
\* nor the cursor, nor the current path of any pane.
C13_SpaceWithoutCursor ==
    [][lastOp'.op = "space" /\ ~isValid(currentIndex[lastOp'.pane]) =>
         UNCHANGED <<current_path, currentIndex, my_selection_model>>]_vars

\* C13 witness: the space bar was pressed in a pane that has no current
\* index.
C13_Witness == lastOp.op = "space" /\ ~isValid(currentIndex[lastOp.pane])

C15_FocusAndSelectionApart ==
    [][/\ lastOp'.op \in {"up", "down", "click", "rclick"} =>
             UNCHANGED <<my_selection_model, current_path>>
       /\ lastOp'.op = "space" => UNCHANGED <<currentIndex, current_path>>]_vars

\* C15 witness: a right click has put the cursor on b while a.txt alone is
\* selected.
C15_Witness ==
    /\ lastOp.op = "rclick"
    /\ currentIndex[lastOp.pane] = <<"b">>
    /\ my_selection_model[lastOp.pane] = {<<"a.txt">>}

C17_TabClearsSelections ==
    [][lastOp'.op = "tab" =>
         \A p \in Panes : selectionModel'[p] = {} /\ my_selection_model'[p] = {}]_vars

\* C18: in F5 copy, F6 move and F8 delete an item that fails is reported and
\* the loop goes on: every target whose own copy, move or delete succeeds
\* has taken effect after the command, every target whose own operation
\* fails has raised the warning, and no pane's current_path has changed.
C18_BatchGoesOn ==
    [][lastOp'.op \in FileOps /\ lastOp'.targets # {} /\ lastOp'.answer # "no" =>
          LET fs == [dirs |-> dirs, files |-> files, denied |-> denied,
                     err |-> FALSE]
              dest_dir == current_path[Opposite(lastOp'.pane)]
              before == dirs \cup files
              after == dirs' \cup files'
          IN
          /\ \A t \in lastOp'.targets :
                LET one == CASE lastOp'.op = "f5" -> copy_item(fs, t, dest_dir)
                             [] lastOp'.op = "f6" -> move_item(fs, t, dest_dir)
                             [] lastOp'.op = "f8" -> delete_item(fs, t)
                    made == (one.dirs \cup one.files) \ before
                    gone == before \ (one.dirs \cup one.files)
                IN
                IF one.err THEN lastOp'.err
                ELSE made \subseteq after /\ gone \cap after = {}
          /\ current_path' = current_path]_vars

\* A copy of a refused file and of a folder: the file's failure is reported
\* and the folder has been copied into the other pane's folder.
C18_Witness ==
    /\ lastOp.op = "f5"
    /\ lastOp.targets = {<<"a.txt">>, <<"b">>}
    /\ <<"a.txt">> \in denied
    /\ lastOp.err
    /\ <<"b", "b">> \in dirs
    /\ <<"b", "a.txt">> \notin files

\* C19: F8 and the panel's delete_item remove nothing unless the answer to
\* their own question box was Yes; with the answer No, or F8 without
\* targets, the file system and both panes stay as they were.
C19_NoDeleteWithoutYes ==
    [][lastOp'.op \in {"f8", "delete_item"} /\ lastOp'.answer # "yes" =>
          UNCHANGED <<dirs, files, current_path, currentIndex,
                      my_selection_model, selectionModel>>]_vars

\* F8 on two targets answered with No.
C19_Witness ==
    /\ lastOp.op = "f8"
    /\ lastOp.answer = "no"
    /\ lastOp.targets = {<<"a.txt">>, <<"b">>}
    /\ {<<"a.txt">>, <<"b">>} \subseteq dirs \cup files

\* C20: every cell of a row is painted by whether its row is focused and
\* whether its row is selected (red on black, white on black, black on red,
\* else the folder/archive/default colour on the base background), whichever
\* column the current cell is in, so all cells of a row have the same colours.
C20_RowColours ==
    \A p \in Panes : \A index \in Range(listing(p)) :
       \A column \in Columns : \A current_column \in Columns :
          LET row_focused == index = currentIndex[p]
              row_selected == index \in my_selection_model[p]
          IN
          /\ paint(p, index, column, current_column).bg =
                IF row_focused THEN "black"
                ELSE IF row_selected THEN "red" ELSE "Base"
          /\ paint(p, index, column, current_column).fg =
                IF row_focused /\ row_selected THEN "red"
                ELSE IF row_focused THEN "white"
                ELSE IF row_selected THEN "black"
                ELSE paint(p, index, 0, current_column).fg
          /\ paint(p, index, column, current_column) =
                paint(p, index, 0, current_column)

\* C21: after toggle_dark_mode, and after change_theme with a chosen file,
\* the config file (when it can be written) holds current_theme, and
\* load_config on it gives current_theme.
C21_ConfigHoldsTheme ==
    lastOp.op \in {"toggle_dark_mode", "change_theme"}
       /\ lastOp.answer # "cancel" /\ config_file.writable =>
          /\ config_file.content = <<"theme", current_theme>>
          /\ load_config("dark", config_file) = current_theme

\* The files of the listing before position i.
FilesBefore(l, i) == {l[j] : j \in 1..(i - 1)}

\* Loading file f makes something that is not an Exception leave load_plugins.
Escapes(pm, f) ==
    /\ endswith_py(f.filename)
    /\ \/ f.does.exec = "SystemExit"
       \/ /\ f.does.exec = "ok" /\ f.does.register = "SystemExit"
          /\ pm.main_window.plugins_menu

\* C22 as stated: after load_plugins a name is in loaded_plugins exactly
\* when its file ends in .py, its module executed without raising, it
\* defines register and register returned without raising; and whatever a
\* plugin raises, every .py file of the folder has been processed.
C22_EveryPluginProcessed ==
    lastOp.op = "load_plugins" =>
       LET pm == plugin_manager
           l == pm.plugins_folder.listdir
       IN
       /\ \A i \in 1..Len(l) :
             l[i].filename.stem \in Range(pm.loaded_plugins) <=>
                /\ endswith_py(l[i].filename)
                /\ l[i].filename.stem \in Range(pm.attempted)
                /\ l[i].does.exec = "ok"
                /\ l[i].does.register = "ok"
                /\ pm.main_window.plugins_menu
       /\ \A i \in 1..Len(l) :
             endswith_py(l[i].filename) =>
                l[i].filename.stem \in Range(pm.attempted)

\* C22, amended: the same, but only an exception derived from Exception
\* is kept from stopping the loop: every .py file with no file before it
\* that raises something else has been processed, and load_plugins raises
\* exactly when some file does so.
C22_PluginsLoaded ==
    lastOp.op = "load_plugins" =>
       LET pm == plugin_manager
           l == pm.plugins_folder.listdir
       IN
       /\ \A i \in 1..Len(l) :
             l[i].filename.stem \in Range(pm.loaded_plugins) <=>
                /\ endswith_py(l[i].filename)
                /\ l[i].filename.stem \in Range(pm.attempted)
                /\ l[i].does.exec = "ok"
                /\ l[i].does.register = "ok"
                /\ pm.main_window.plugins_menu
       /\ \A i \in 1..Len(l) :
             endswith_py(l[i].filename)
                /\ (\A f \in FilesBefore(l, i) : ~Escapes(pm, f)) =>
                   l[i].filename.stem \in Range(pm.attempted)
       /\ pm.raised <=> \E i \in 1..Len(l) : Escapes(pm, l[i])

\* A plugin that raises an Exception, listed before one that loads.
C22_Witness ==
    /\ lastOp.op = "load_plugins"
    /\ Len(plugin_manager.plugins_folder.listdir) = 3
    /\ plugin_manager.plugins_folder.listdir[1].does.exec = "Exception"
    /\ plugin_manager.attempted = <<"p1", "p2">>
    /\ plugin_manager.loaded_plugins = <<"p2">>

\* C23: go_up puts the pane on the parent of its current_path when the
\* parent exists and leaves a pane at the root where it is; pressed again
\* and again it brings the pane to the root, where the pane stays.
C23_GoUpReachesRoot ==
    /\ [][lastOp'.op = "go_up" =>
             LET p == lastOp'.pane
                 parent_dir == dirname(current_path[p])
             IN
             /\ exists(dirs, files, parent_dir) => current_path'[p] = parent_dir
             /\ current_path[p] = Root => current_path'[p] = Root
             /\ current_path'[Opposite(p)] = current_path[Opposite(p)]]_vars
    /\ \A p \in Panes : <>[](current_path[p] = Root)

\* C24: rename_item changes neither the file system nor current_path when
\* the dialog is cancelled, the name is blank or the new name is taken in
\* the same directory; no entry other than the renamed one (and what is
\* under it) is ever lost or replaced; and after a rename the entry is at
\* its new path and the pane is on the directory that holds it.
C24_RenameNeverOverwrites ==
    [][\A p \in Panes : \A index \in Range(listing(p)) :
         \A ok \in BOOLEAN : \A text \in NewNames :
            PanelRenameItem(p, index, ok, text) =>
               LET new_path == dirname(index) \o strip(text)
                   others == {q \in dirs \cup files : ~IsPrefix(index, q)}
               IN
               /\ ~ok \/ strip(text) = <<>> \/ new_path \in dirs \cup files =>
                     UNCHANGED <<dirs, files, current_path>>
               /\ \A q \in others :
                     /\ q \in dirs => q \in dirs'
                     /\ q \in files => q \in files'
               /\ dirs' # dirs \/ files' # files =>
                     /\ index \notin dirs' \cup files'
                     /\ new_path \in dirs' \cup files'
                     /\ new_path \in dirs' <=> index \in dirs
                     /\ current_path'[p] = dirname(new_path)]_vars

\* /a.txt has been renamed to /c, and a rename to a name that is taken has
\* been refused.
C24_Witness ==
    /\ lastOp.op = "rename_item"
    /\ lastOp.answer = "exists"
    /\ <<"c">> \in files
    /\ <<"a.txt">> \notin files

Spec == Init /\ [][Next]_vars
====
